---- MODULE Spec2Model ----
(***************************************************************************)
(* A model of the MVCC store of mvcc/kvstore.go: the store's revisions,    *)
(* its backend (the batch a reader sees and what is durably committed),    *)
(* the key index, the FIFO scheduler with its compaction and barrier jobs, *)
(* Compact, Commit, Hash, Close, Restore and the recovery of NewStore.     *)
(*                                                                         *)
(* A revision is the pair <<main, sub>>; the 16-byte big-endian encoding   *)
(* of kvstore.go orders keys as the pairs are ordered, and the 17-byte     *)
(* tombstone key of a revision is the same pair with the row's tomb flag.  *)
(* A meta entry is a sequence: <<>> when the key is absent, <<v>> when it  *)
(* holds v (UnsafeRange returns no value, or one).                         *)
(***************************************************************************)
EXTENDS Integers, Sequences, FiniteSets, TLC

\* ---------------------------------------------------------------- bounds
\* The user keys of the model.
Keys == {"a", "b"}
\* Writes stop once currentRev has reached MaxRev.
MaxRev == 3
\* Completion channels one process hands out.
MaxChans == 1
\* restoreChunkKeys (kvstore.go:57 sets 10000), scaled to the model's histories.
RestoreChunkKeys == 2
\* The sweep's batch size (10000 rows in the repository), scaled likewise.
CompactBatch == 2

\* ------------------------------------------------------------- revisions
RevLT(a, b) == a[1] < b[1] \/ (a[1] = b[1] /\ a[2] < b[2])

RowRev(r) == <<r.main, r.sub>>

MinRow(S) == CHOOSE r \in S : \A q \in S : q = r \/ RevLT(RowRev(r), RowRev(q))

RECURSIVE SortRows(_)
SortRows(S) == IF S = {} THEN <<>>
               ELSE LET m == MinRow(S) IN <<m>> \o SortRows(S \ {m})

\* BatchTx.UnsafeRange on the key bucket: the rows with min <= rev < max in
\* ascending key order, at most limit of them (limit 0: all).
UnsafeRange(rows, min, max, limit) ==
    LET s == SortRows({r \in rows : ~RevLT(RowRev(r), min) /\ RevLT(RowRev(r), max)})
    IN IF limit > 0 /\ Len(s) > limit THEN SubSeq(s, 1, limit) ELSE s

\* A backend with its two buckets and nothing in them.
EmptyBackend == [rows |-> {}, sched |-> <<>>, fin |-> <<>>, ci |-> <<>>]

\* ------------------------------------------------------------- key index
\* A key-index record is its sequence of generations; <<>> is "not in the tree".
EmptyGen == [ver |-> 0, created |-> <<0, 0>>, revs |-> <<>>]

EmptyIndex == [k \in Keys |-> <<>>]

SetLast(s, x) == [s EXCEPT ![Len(s)] = x]

\* keyIndex.put: append rev to the current generation, opening it when empty.
kiPut(gens, rev) ==
    LET gs == IF gens = <<>> THEN <<EmptyGen>> ELSE gens
        g  == gs[Len(gs)]
        g1 == [ver     |-> g.ver + 1,
               created |-> IF g.revs = <<>> THEN rev ELSE g.created,
               revs    |-> Append(g.revs, rev)]
    IN SetLast(gs, g1)

\* keyIndex.tombstone: close the current generation with rev; a record whose
\* current generation is empty is left alone (ErrRevisionNotFound).
kiTombstone(gens, rev) ==
    IF gens = <<>> \/ gens[Len(gens)].revs = <<>> THEN gens
    ELSE Append(kiPut(gens, rev), EmptyGen)

\* keyIndex.restore: one generation holding the modified revision only.
kiRestore(created, modified, ver) ==
    <<[ver |-> ver, created |-> created, revs |-> <<modified>>]>>

\* The index of the latest revision of g with main <= atRev, 0 when none.
WalkGen(g, atRev) ==
    LET S == {i \in 1..Len(g.revs) : g.revs[i][1] <= atRev}
    IN IF S = {} THEN 0 ELSE CHOOSE i \in S : \A j \in S : j <= i

\* keyIndex.findGeneration: the generation atRev falls in, 0 when the key
\* does not exist at atRev.
RECURSIVE findGeneration(_, _, _)
findGeneration(gens, atRev, cg) ==
    IF cg = 0 THEN 0
    ELSE LET g == gens[cg] IN
         IF g.revs = <<>> THEN findGeneration(gens, atRev, cg - 1)
         ELSE IF cg # Len(gens) /\ g.revs[Len(g.revs)][1] <= atRev THEN 0
         ELSE IF g.revs[1][1] <= atRev THEN cg
         ELSE findGeneration(gens, atRev, cg - 1)

\* keyIndex.get: the revision that wrote the key last at or before atRev.
kiGet(gens, atRev) ==
    LET cg == findGeneration(gens, atRev, Len(gens))
        no == [ok |-> FALSE, mod |-> <<0, 0>>, created |-> <<0, 0>>, ver |-> 0]
    IN IF cg = 0 THEN no
       ELSE LET g == gens[cg]
                n == WalkGen(g, atRev)
            IN IF n = 0 THEN no
               ELSE [ok |-> TRUE, mod |-> g.revs[n], created |-> g.created,
                     ver |-> g.ver - (Len(g.revs) - n)]

\* The first generation that holds atRev or was created after it.
RECURSIVE firstGenAt(_, _, _)
firstGenAt(gens, atRev, i) ==
    IF i >= Len(gens) THEN i
    ELSE IF gens[i].revs[Len(gens[i].revs)][1] > atRev THEN i
    ELSE firstGenAt(gens, atRev, i + 1)

\* keyIndex.compact: drop the generations closed at or before atRev; in the
\* generation holding atRev keep the latest revision <= atRev and the newer
\* ones. Gives the record left (<<>> when it is empty) and the revision kept.
kiCompact(gens, atRev) ==
    IF gens = <<>> THEN [gens |-> <<>>, keep |-> {}]
    ELSE LET i  == firstGenAt(gens, atRev, 1)
             g  == gens[i]
             n  == WalkGen(g, atRev)
             g1 == IF n = 0 THEN g
                   ELSE [g EXCEPT !.revs = SubSeq(g.revs, n, Len(g.revs))]
             gs == <<g1>> \o SubSeq(gens, i + 1, Len(gens))
         IN [gens |-> IF Len(gs) = 1 /\ gs[1].revs = <<>> THEN <<>> ELSE gs,
             keep |-> IF n = 0 THEN {} ELSE {g.revs[n]}]

\* index.Compact: compact every record, drop the empty ones, and return the
\* revisions the backend must keep.
indexCompact(idx, atRev) ==
    [index |-> [k \in Keys |-> kiCompact(idx[k], atRev).gens],
     keep  |-> UNION {kiCompact(idx[k], atRev).keep : k \in Keys}]

\* index.Insert: the record of the key is put in the tree, replacing the one
\* the tree holds.
indexInsert(idx, k, gens) == [idx EXCEPT ![k] = gens]

\* ----------------------------------------------------------------- state
VARIABLES
    currentRev,      \* store.currentRev
    compactMainRev,  \* store.compactMainRev
    kvindex,         \* store.kvindex: key -> generations
    batch,           \* the backend as the batch transaction shows it
    disk,            \* the backend as of its last commit
    pendings,        \* the scheduler's queue of jobs
    worker,          \* the scheduler's worker: where it is, its job, the sweep's cursor
    chans,           \* the completion channels handed out: rev, kind, closed, fin
    pc,              \* the store's life cycle: run, Close's and Restore's steps, recovery
    cpc,             \* the Compact call in progress, if any
    scheduledCompact,\* restore's local: the compaction to resume
    ret,             \* what the Compact call of the last step returned, if any
    nWrites,         \* ghost: write transactions committed since the fresh store
    pristine,        \* ghost: no crash and no Restore has happened
    truth,           \* ghost: what a read at each revision returned when it was first possible
    ig,              \* store.ig: nil, or the getter and the index it returns now
    consistentIndex, \* store.consistentIndex: the cache read and written atomically
    peer,            \* ghost: a second store that applies the same calls and never restarts
    lk,              \* the calls in progress at the grain of their lock operations
    le,              \* store.le: the Attach calls the last restore made, and those that failed
    cic              \* the ConsistentIndex call that holds the batch lock, and what it read

vars == <<currentRev, compactMainRev, kvindex, batch, disk, pendings, worker,
          chans, pc, cpc, scheduledCompact, ret, nWrites, pristine, truth,
          ig, consistentIndex, peer, lk, le, cic>>

\* --------------------------------------------------------------- backend
MetaRev(m) == IF m = <<>> THEN -1 ELSE m[1]

\* Backend.ForceCommit: what the batch holds becomes durable.
ForceCommit(b) == b

\* The row the key bucket holds at a revision, as a set (empty when none).
RowAt(rows, rev) == {r \in rows : RowRev(r) = rev}

\* ----------------------------------------------------------------- reads
\* RangeOn as a Range that refuses only the revisions below compactMainRev.
RangeOn_FromCompactMainRev(atRev, cur, cmr, idx, b) ==
    LET rev == IF atRev <= 0 THEN cur ELSE atRev
        hit(k) == kiGet(idx[k], rev)
    IN IF atRev > cur THEN [err |-> "ErrFutureRev", kvs |-> {}]
       ELSE IF rev < cmr THEN [err |-> "ErrCompacted", kvs |-> {}]
       ELSE [err |-> "nil",
             kvs |-> {[key |-> k, mod |-> hit(k).mod, create |-> hit(k).created[1],
                       ver |-> hit(k).ver, row |-> RowAt(b.rows, hit(k).mod)]
                      : k \in {x \in Keys : hit(x).ok}}]

\* A read transaction's Range over every key at atRev, against the store's
\* currentRev and compactMainRev, its index and the rows of b.
RangeOn(atRev, cur, cmr, idx, b) ==
    LET rev == IF atRev <= 0 THEN cur ELSE atRev
        hit(k) == kiGet(idx[k], rev)
    IN IF atRev > cur THEN [err |-> "ErrFutureRev", kvs |-> {}]
       ELSE IF rev < cmr + 1 THEN [err |-> "ErrCompacted", kvs |-> {}]
       ELSE [err |-> "nil",
             kvs |-> {[key |-> k, mod |-> hit(k).mod, create |-> hit(k).created[1],
                       ver |-> hit(k).ver, row |-> RowAt(b.rows, hit(k).mod)]
                      : k \in {x \in Keys : hit(x).ok}}]

Range(atRev) == RangeOn(atRev, currentRev, compactMainRev, kvindex, batch)

\* ---------------------------------------------------------------- writes
\* One mutation of a write transaction at revision rev: a put writes a row
\* and records rev in the index; a delete of a key the index holds writes a
\* tombstone row and closes the key's generation; a delete of a missing key
\* changes nothing. st is [rows, index, n]: n counts the changes so far.
Mutate(st, op, main) ==
    LET rev == <<main, st.n>>
        got == kiGet(st.index[op.key], main)
    IN IF op.type = "put"
       THEN [rows  |-> st.rows \cup
                       {[main |-> main, sub |-> st.n, tomb |-> FALSE, key |-> op.key,
                         create |-> IF got.ok THEN got.created[1] ELSE main,
                         ver |-> IF got.ok THEN got.ver + 1 ELSE 1,
                         lease |-> op.lease, val |-> 10 * main + st.n]},
             index |-> [st.index EXCEPT ![op.key] = kiPut(@, rev)],
             n     |-> st.n + 1]
       ELSE IF got.ok
       THEN [rows  |-> st.rows \cup
                       {[main |-> main, sub |-> st.n, tomb |-> TRUE, key |-> op.key,
                         create |-> 0, ver |-> 0, lease |-> 0, val |-> 0]},
             index |-> [st.index EXCEPT ![op.key] = kiTombstone(@, rev)],
             n     |-> st.n + 1]
       ELSE st

RECURSIVE MutateAll(_, _, _)
MutateAll(st, ops, main) ==
    IF ops = <<>> THEN st
    ELSE MutateAll(Mutate(st, Head(ops), main), Tail(ops), main)

\* The index the backend holds at meta/consistent_index, 0 when it holds none.
MetaIndex(m) == IF m = <<>> THEN 0 ELSE m[1]

\* saveIndex as a save through a buffer of one bit, too narrow for the index.
saveIndex_Narrow(b) == IF ig.nil THEN b ELSE [b EXCEPT !.ci = <<ig.index % 2>>]

\* store.saveIndex on the batch transaction: nothing for a store built without
\* a ConsistentIndexGetter, else the getter's index is put at
\* meta/consistent_index (its 8 big-endian bytes hold any uint64 as it is).
saveIndex(b) == IF ig.nil THEN b ELSE [b EXCEPT !.ci = <<ig.index>>]

\* What store.saveIndex leaves in the cache s.consistentIndex.
savedIndex == IF ig.nil THEN consistentIndex ELSE ig.index

\* -------------------------------------------------------------- recovery
\* math.MaxInt64, narrowed to the integers of the model.
MaxInt64 == 2147483647

\* restoreChunk's loop body for one row: st is [unordered, keyToLease,
\* currentRev]. A tombstone whose key the chunk's map does not hold only
\* clears the key's lease; a put whose key the map does not hold starts a
\* new record from the row's create revision and version.
restoreRow(st, r) ==
    LET rev == RowRev(r)
        ki  == st.unordered[r.key]
    IN IF r.tomb
       THEN [unordered  |-> IF ki # <<>>
                            THEN [st.unordered EXCEPT ![r.key] = kiTombstone(ki, rev)]
                            ELSE st.unordered,
             keyToLease |-> [st.keyToLease EXCEPT ![r.key] = 0],
             currentRev |-> r.main]
       ELSE [unordered  |-> [st.unordered EXCEPT ![r.key] =
                                IF ki # <<>> THEN kiPut(ki, rev)
                                ELSE kiRestore(<<r.create, 0>>, rev, r.ver)],
             keyToLease |-> [st.keyToLease EXCEPT ![r.key] = r.lease],
             currentRev |-> r.main]

RECURSIVE restoreRows(_, _)
restoreRows(st, keys) ==
    IF keys = <<>> THEN st
    ELSE restoreRows(restoreRow(st, Head(keys)), Tail(keys))

\* restoreChunk as one that starts every chunk with an empty keyToLease.
restoreChunk_NewLeases(keys, keyToLease, cur) ==
    restoreRows([unordered |-> EmptyIndex, keyToLease |-> [k \in Keys |-> 0],
                 currentRev |-> cur], keys)

\* store.restoreChunk: the chunk's own map of key to record, built from the
\* chunk's rows in order.
restoreChunk(keys, keyToLease, cur) ==
    restoreRows([unordered |-> EmptyIndex, keyToLease |-> keyToLease,
                 currentRev |-> cur], keys)

\* restore's scan: chunk after chunk from min, each chunk's records inserted
\* in the tree; st is [index, keyToLease, currentRev].
RECURSIVE restoreScan(_, _, _)
restoreScan(rows, min, st) ==
    LET keys == UnsafeRange(rows, min, <<MaxInt64, MaxInt64>>, RestoreChunkKeys)
    IN IF Len(keys) = 0 THEN st
       ELSE LET c   == restoreChunk(keys, st.keyToLease, st.currentRev)
                st1 == [index |-> [k \in Keys |->
                                      IF c.unordered[k] # <<>>
                                      THEN indexInsert(st.index, k, c.unordered[k])[k]
                                      ELSE st.index[k]],
                        keyToLease |-> c.keyToLease,
                        currentRev |-> c.currentRev]
                lst == keys[Len(keys)]
            IN IF Len(keys) < RestoreChunkKeys THEN st1
               ELSE restoreScan(rows, <<lst.main, lst.sub + 1>>, st1)

\* restore as one that reads compactMainRev from scheduledCompactRev.
restore_FromScheduled(b, cur, cmr) ==
    LET cmr1 == IF Len(b.sched) # 0 THEN b.sched[1] ELSE cmr
        sc   == IF Len(b.sched) # 0 THEN b.sched[1] ELSE 0
        st   == restoreScan(b.rows, <<1, 0>>,
                            [index |-> EmptyIndex,
                             keyToLease |-> [k \in Keys |-> 0],
                             currentRev |-> cur])
    IN [compactMainRev   |-> cmr1,
        currentRev       |-> IF st.currentRev < cmr1 THEN cmr1 ELSE st.currentRev,
        kvindex          |-> st.index,
        keyToLease       |-> st.keyToLease,
        scheduledCompact |-> IF sc <= cmr1 THEN 0 ELSE sc]

\* restore without the step that lifts currentRev to compactMainRev.
restore_NoLift(b, cur, cmr) ==
    LET cmr1 == IF Len(b.fin) # 0 THEN b.fin[1] ELSE cmr
        sc   == IF Len(b.sched) # 0 THEN b.sched[1] ELSE 0
        st   == restoreScan(b.rows, <<1, 0>>,
                            [index |-> EmptyIndex,
                             keyToLease |-> [k \in Keys |-> 0],
                             currentRev |-> cur])
    IN [compactMainRev   |-> cmr1,
        currentRev       |-> st.currentRev,
        kvindex          |-> st.index,
        keyToLease       |-> st.keyToLease,
        scheduledCompact |-> IF sc <= cmr1 THEN 0 ELSE sc]

\* store.restore up to the release of the batch lock, on backend b, from the
\* currentRev and compactMainRev the caller has set.
restore(b, cur, cmr) ==
    LET cmr1 == IF Len(b.fin) # 0 THEN b.fin[1] ELSE cmr
        sc   == IF Len(b.sched) # 0 THEN b.sched[1] ELSE 0
        st   == restoreScan(b.rows, <<1, 0>>,
                            [index |-> EmptyIndex,
                             keyToLease |-> [k \in Keys |-> 0],
                             currentRev |-> cur])
    IN [compactMainRev   |-> cmr1,
        currentRev       |-> IF st.currentRev < cmr1 THEN cmr1 ELSE st.currentRev,
        kvindex          |-> st.index,
        keyToLease       |-> st.keyToLease,
        scheduledCompact |-> IF sc <= cmr1 THEN 0 ELSE sc]

\* restore's loop over keyToLease, the lease manager returning an error for
\* the keys of errs: one Attach(lid, key) for each key the map holds, the
\* errors logged.
Attached(keyToLease, errs) ==
    [calls |-> [k \in Keys |-> IF keyToLease[k] # 0 THEN <<keyToLease[k]>> ELSE <<>>],
     errs  |-> errs]

\* The loop has run, the lease manager having failed any of the calls.
AttachAll(keyToLease) ==
    \E errs \in SUBSET {k \in Keys : keyToLease[k] # 0} :
        le' = Attached(keyToLease, errs)

\* The fields NewStore and Restore set before they call restore.
NewStoreCurrentRev == 1
NewStoreCompactMainRev == -1

\* ------------------------------------------------------------- scheduler
NoJob == [kind |-> "none", rev |-> 0, keep |-> {}, ch |-> 0]
IdleWorker == [pc |-> "idle", job |-> NoJob, last |-> <<0, 0>>]
NoRead == [err |-> "none", kvs |-> {}]
NoRet == [err |-> "none", ch |-> 0]
IdleCompact == [pc |-> "idle", rev |-> 0, api |-> FALSE]
\* No ConsistentIndex call is past its load of the cache.
IdleIndexCall == [pc |-> "idle", v |-> 0]

\* s.stopc is closed; the scheduler's context is cancelled (Stop was called).
StopcClosed == pc \in {"close_stopc", "close_wait", "closed", "restore_stopc", "restore_wait"}
Cancelled == pc \in {"close_wait", "closed", "restore_wait"}
\* The store is in its clients' hands: they call it until Close has returned,
\* also while Close runs.
InUse == pc \in {"run", "close_stopc", "close_wait"}
\* NewStore has returned the store to its caller.
Returned == pc # "new_resume" /\ ~(cpc.pc = "persisted" /\ ~cpc.api)
\* The batch transaction's lock is free.
TxFree == cic.pc = "idle"
\* s.mu is free.
MuFree == cpc.pc = "idle" /\ pc \notin {"restore_stopc", "restore_wait", "restore_resume"}

\* What reads return at every revision they can be made at, the rest blank.
Reads(cur, cmr, idx, b) ==
    [r \in 1..MaxRev |-> IF cmr < r /\ r <= cur THEN RangeOn(r, cur, cmr, idx, b)
                         ELSE NoRead]

\* --------------------------------------------------------------- the sweep
\* One batch of scheduleCompaction(rev, keep) from the cursor: the rows up to
\* rev that keep does not hold are deleted. A short batch is the last: it
\* writes finishedCompactRev and the sweep returns true.
SweepBatch(b, job, last) ==
    LET keys == UnsafeRange(b.rows, last, <<job.rev + 1, 0>>, CompactBatch)
        gone == {keys[i] : i \in {j \in 1..Len(keys) : RowRev(keys[j]) \notin job.keep}}
        rows == b.rows \ gone
    IN IF Len(keys) < CompactBatch
       THEN [done |-> TRUE, b |-> [b EXCEPT !.rows = rows, !.fin = <<job.rev>>],
             last |-> last]
       ELSE [done |-> FALSE, b |-> [b EXCEPT !.rows = rows],
             last |-> <<keys[Len(keys)].main, keys[Len(keys)].sub + 1>>]

\* ------------------------------------------------------------- the getter
\* A store built without a ConsistentIndexGetter, and one built with a getter
\* that returns index i.
NoGetter == [nil |-> TRUE, index |-> 0]
Getter(i) == [nil |-> FALSE, index |-> i]

\* The largest offset the replicated log reaches.
MaxIndex == 2

\* --------------------------------------------------------------- the peer
\* A second store built without a getter, as the state of a store just made
\* on an empty backend: live is what it holds, dur what it has committed.
StoreOf(r) ==
    [currentRev |-> r.currentRev, compactMainRev |-> r.compactMainRev,
     kvindex |-> r.kvindex, batch |-> EmptyBackend]
FreshStore == StoreOf(restore(EmptyBackend, NewStoreCurrentRev, NewStoreCompactMainRev))
\* A peer that holds store st and has committed all of it.
PeerOf(on, st) == [on |-> on, live |-> st, dur |-> st]
NoPeer == PeerOf(FALSE, FreshStore)
FreshPeer == PeerOf(TRUE, FreshStore)

\* The peer applies the write transaction the store applies.
PeerWrite(p, ops) ==
    LET st == MutateAll([rows |-> p.live.batch.rows, index |-> p.live.kvindex,
                         n |-> 0], ops, p.live.currentRev + 1)
    IN IF ~p.on \/ st.n = 0 THEN p
       ELSE [p EXCEPT !.live.batch.rows = st.rows,
                      !.live.kvindex = st.index,
                      !.live.currentRev = @ + 1]

\* The peer commits when the store commits.
PeerCommit(p) == IF p.on THEN [p EXCEPT !.dur = p.live] ELSE p

\* scheduleCompaction(rev, keep) run to its end on backend b.
RECURSIVE SweepAll(_, _, _)
\* After one batch: the sweep has ended, or goes on from where it stopped.
SweepRest(sw, job) == IF sw.done THEN sw.b ELSE SweepAll(sw.b, job, sw.last)
SweepAll(b, job, last) == SweepRest(SweepBatch(b, job, last), job)

\* The peer runs the compaction the store accepts, up to the end of its
\* sweep, and commits.
PeerSwept(p, rev, c) ==
    PeerOf(p.on, [p.live EXCEPT
        !.compactMainRev = rev,
        !.kvindex = c.index,
        !.batch = SweepAll([p.live.batch EXCEPT !.sched = <<rev>>],
                           [kind |-> "compact", rev |-> rev, keep |-> c.keep, ch |-> 0],
                           <<0, 0>>)])
\* Compact(rev) on the peer: refused below the compacted revision and above
\* the current one, as on the store.
PeerCompact(p, rev) ==
    IF ~p.on \/ rev <= p.live.compactMainRev \/ rev > p.live.currentRev THEN PeerCommit(p)
    ELSE PeerSwept(p, rev, indexCompact(p.live.kvindex, rev))

\* The peer starts again from what it had committed.
PeerRestart(p) == IF p.on THEN [p EXCEPT !.live = p.dur] ELSE p

\* ------------------------------------------------------------------ Init
\* NewStore on an empty backend, returned to its caller.
NewStoreAs(r) ==
    /\ currentRev = r.currentRev
    /\ compactMainRev = r.compactMainRev
    /\ kvindex = r.kvindex
    /\ batch = EmptyBackend
    /\ disk = EmptyBackend
    /\ pendings = <<>>
    /\ worker = IdleWorker
    /\ chans = <<>>
    /\ pc = "run"
    /\ cpc = IdleCompact
    /\ scheduledCompact = r.scheduledCompact
    /\ ret = NoRet
    /\ nWrites = 0
    /\ pristine = TRUE
    /\ truth = Reads(r.currentRev, r.compactMainRev, r.kvindex, EmptyBackend)
    /\ consistentIndex = 0
    /\ le = Attached(r.keyToLease, {})
    /\ cic = IdleIndexCall

\* NewStore on an empty backend: restore() scans it and the store is returned.
NewStoreInit ==
    NewStoreAs(restore(EmptyBackend, NewStoreCurrentRev, NewStoreCompactMainRev))

\* The goroutines that call the store at the same time.
MaxProcs == 2
Procs == 1..MaxProcs

\* A goroutine outside any call: op is the call it is in, i the instruction it
\* is at, held the locks it holds in the order it took them, snap and sees
\* what a read transaction got for currentRev and from the backend.
IdleCall == [op |-> "none", i |-> 0, held |-> <<>>, snap |-> 0, sees |-> 0]

\* No call is in progress at the grain of its locks: rev is currentRev, staged
\* the largest main revision put in the batch transaction, and visible the
\* largest one a read transaction opened now would see.
NoCalls == [th |-> [p \in Procs |-> IdleCall], rev |-> 1, staged |-> 1, visible |-> 1]

\* NewStore(b, le, nil): a store without a getter.
Init ==
    /\ NewStoreInit
    /\ ig = NoGetter
    /\ peer = NoPeer
    /\ lk = NoCalls

\* ---------------------------------------------------- write transactions
Ops == [type : {"put"}, key : Keys, lease : {0}] \cup
       [type : {"del"}, key : Keys, lease : {0}]

\* The transactions a client issues: one mutation, or a put followed by
\* another mutation.
Txns == {<<o>> : o \in Ops} \cup
        {<<o1, o2>> : o1 \in {o \in Ops : o.type = "put"}, o2 \in Ops}

\* The transactions of one mutation.
OneOpTxns == {<<o>> : o \in Ops}

\* The transactions of one mutation on one key.
OneKeyTxns == {<<o>> : o \in {o \in Ops : o.key = "a"}}

\* WriteTxn as a transaction whose End saves the index and leaves currentRev
\* as it was.
WriteTxn_NoAdvance(ops) ==
    /\ InUse
    /\ MuFree
    /\ TxFree
    /\ currentRev < MaxRev
    /\ LET st == MutateAll([rows |-> batch.rows, index |-> kvindex, n |-> 0],
                           ops, currentRev + 1)
       IN /\ st.n > 0
          /\ batch' = saveIndex([batch EXCEPT !.rows = st.rows])
          /\ kvindex' = st.index
          /\ nWrites' = IF pristine THEN nWrites + 1 ELSE nWrites
    /\ consistentIndex' = savedIndex
    /\ peer' = PeerWrite(peer, ops)
    /\ ret' = NoRet
    /\ UNCHANGED <<ig, lk, le, cic>>
    /\ UNCHANGED <<currentRev, compactMainRev, disk, pendings, worker, chans, pc,
                   cpc, scheduledCompact, pristine, truth>>

\* A write transaction from Write() to End(): under mu (read) and the batch
\* lock it applies its mutations at main revision currentRev + 1; if any
\* changed the store, End saves the consistent index and advances currentRev.
WriteTxn(ops) ==
    /\ InUse
    /\ MuFree
    /\ TxFree
    /\ currentRev < MaxRev
    /\ LET st == MutateAll([rows |-> batch.rows, index |-> kvindex, n |-> 0],
                           ops, currentRev + 1)
           b1 == saveIndex([batch EXCEPT !.rows = st.rows])
       IN /\ st.n > 0
          /\ batch' = b1
          /\ kvindex' = st.index
          /\ currentRev' = currentRev + 1
          /\ nWrites' = IF pristine THEN nWrites + 1 ELSE nWrites
          /\ truth' = [truth EXCEPT ![currentRev + 1] =
                          RangeOn(currentRev + 1, currentRev + 1, compactMainRev,
                                  st.index, b1)]
    /\ consistentIndex' = savedIndex
    /\ peer' = PeerWrite(peer, ops)
    /\ ret' = NoRet
    /\ UNCHANGED <<ig, lk, le, cic>>
    /\ UNCHANGED <<compactMainRev, disk, pendings, worker, chans, pc, cpc,
                   scheduledCompact, pristine>>

\* ----------------------------------------------------------------- Commit
\* store.Commit: under mu, save the consistent index and force a commit.
Commit ==
    /\ InUse
    /\ MuFree
    /\ TxFree
    /\ batch' = saveIndex(batch)
    /\ disk' = ForceCommit(batch')
    /\ consistentIndex' = savedIndex
    /\ peer' = PeerCommit(peer)
    /\ ret' = NoRet
    /\ UNCHANGED <<ig, lk, le, cic>>
    /\ UNCHANGED <<currentRev, compactMainRev, kvindex, pendings, worker, chans,
                   pc, cpc, scheduledCompact, nWrites, pristine, truth>>

\* The keys of the meta bucket in byte order, and the entry b holds at one.
MetaKeys == <<"consistent_index", "finishedCompactRev", "scheduledCompactRev">>
MetaEntry(b, k) == IF k = "consistent_index" THEN b.ci
                   ELSE IF k = "finishedCompactRev" THEN b.fin ELSE b.sched

\* DefaultIgnores, as init fills it: the entries Hash leaves out.
DefaultIgnores == {<<"meta", "consistent_index">>}

\* Backend.Hash(ignores): the digest of the entries of both buckets in bucket
\* and key order, less the ignored ones; it tells apart any two contents.
backendHash(b, ignores) ==
    [key  |-> SortRows(b.rows),
     meta |-> [i \in {j \in 1..Len(MetaKeys) : <<"meta", MetaKeys[j]>> \notin ignores}
                  |-> <<MetaKeys[i], MetaEntry(b, MetaKeys[i])>>]]

\* What store.Hash returns on a store with batch b and currentRev cur.
HashOf(b, cur) == [hash |-> backendHash(ForceCommit(b), DefaultIgnores), revision |-> cur]

\* store.Hash: force a commit, then hash the backend; no store lock is taken.
Hash ==
    /\ pc # "closed"
    /\ Returned
    /\ disk' = ForceCommit(batch)
    /\ peer' = PeerCommit(peer)
    /\ ret' = NoRet
    /\ UNCHANGED <<ig, consistentIndex, lk, le, cic>>
    /\ UNCHANGED <<currentRev, compactMainRev, kvindex, batch, pendings, worker,
                   chans, pc, cpc, scheduledCompact, nWrites, pristine,
                   truth>>

\* ---------------------------------------------------------------- Compact
\* make(chan struct{}): rev is the revision of the compaction the channel
\* reports (0 for a barrier's), fin the finishedCompactRev the backend held
\* when the channel was closed, n the number of close(ch) executed on it.
NewChan(rev, kind) == [rev |-> rev, kind |-> kind, closed |-> FALSE, fin |-> -1, n |-> 0]

\* close(ch), the store's backend being b.
CloseChan(cs, c, b) ==
    [cs EXCEPT ![c].closed = TRUE, ![c].fin = MetaRev(b.fin), ![c].n = @ + 1]

\* CompactCompacted as a Compact that hands out the channel and schedules no
\* barrier for it.
CompactCompacted_NoBarrier(rev, api) ==
    /\ rev <= compactMainRev
    /\ chans' = Append(chans, NewChan(0, "barrier"))
    /\ ret' = IF api THEN [err |-> "ErrCompacted", ch |-> Len(chans) + 1] ELSE NoRet
    /\ UNCHANGED <<ig, consistentIndex, peer, lk, le, cic>>
    /\ UNCHANGED <<currentRev, compactMainRev, kvindex, batch, disk, pendings,
                   worker, cpc, nWrites, pristine, truth>>

\* Compact(rev) when rev <= compactMainRev: a new channel, a barrier job for
\* it in the queue, and ErrCompacted with the channel.
CompactCompacted(rev, api) ==
    /\ rev <= compactMainRev
    /\ chans' = Append(chans, NewChan(0, "barrier"))
    /\ pendings' = Append(pendings, [kind |-> "barrier", rev |-> 0, keep |-> {},
                                     ch |-> Len(chans) + 1])
    /\ ret' = IF api THEN [err |-> "ErrCompacted", ch |-> Len(chans) + 1] ELSE NoRet
    /\ UNCHANGED <<ig, consistentIndex, peer, lk, le, cic>>
    /\ UNCHANGED <<currentRev, compactMainRev, kvindex, batch, disk, worker, cpc,
                   nWrites, pristine, truth>>

\* CompactFuture as a Compact that sets compactMainRev before it compares rev
\* with currentRev.
CompactFuture_SetsRev(rev, api) ==
    /\ rev > compactMainRev
    /\ rev > currentRev
    /\ compactMainRev' = rev
    /\ ret' = IF api THEN [err |-> "ErrFutureRev", ch |-> 0] ELSE NoRet
    /\ UNCHANGED <<ig, consistentIndex, peer, lk, le, cic>>
    /\ UNCHANGED <<currentRev, kvindex, batch, disk, pendings, worker, chans, cpc,
                   nWrites, pristine, truth>>

\* Compact(rev) when rev > currentRev: ErrFutureRev and no channel.
CompactFuture(rev, api) ==
    /\ rev > compactMainRev
    /\ rev > currentRev
    /\ ret' = IF api THEN [err |-> "ErrFutureRev", ch |-> 0] ELSE NoRet
    /\ UNCHANGED <<ig, consistentIndex, peer, lk, le, cic>>
    /\ UNCHANGED <<currentRev, compactMainRev, kvindex, batch, disk, pendings,
                   worker, chans, cpc, nWrites, pristine, truth>>

\* CompactPersist as a Compact that puts scheduledCompactRev in the batch and
\* does not force the commit.
CompactPersist_NoCommit(rev, api) ==
    /\ rev > compactMainRev
    /\ rev <= currentRev
    /\ TxFree
    /\ compactMainRev' = rev
    /\ batch' = [batch EXCEPT !.sched = <<rev>>]
    /\ cpc' = [pc |-> "persisted", rev |-> rev, api |-> api]
    /\ truth' = [r \in 1..MaxRev |-> IF r <= rev THEN NoRead ELSE truth[r]]
    /\ peer' = PeerCompact(peer, rev)
    /\ ret' = NoRet
    /\ UNCHANGED <<ig, consistentIndex, lk, le, cic>>
    /\ UNCHANGED <<currentRev, kvindex, disk, pendings, worker, chans, nWrites,
                   pristine>>

\* Compact(rev) otherwise, to the forced commit: compactMainRev is set and
\* scheduledCompactRev is put in the meta bucket and committed; mu and revMu
\* stay held.
CompactPersist(rev, api) ==
    /\ rev > compactMainRev
    /\ rev <= currentRev
    /\ TxFree
    /\ compactMainRev' = rev
    /\ batch' = [batch EXCEPT !.sched = <<rev>>]
    /\ disk' = ForceCommit(batch')
    /\ cpc' = [pc |-> "persisted", rev |-> rev, api |-> api]
    /\ truth' = [r \in 1..MaxRev |-> IF r <= rev THEN NoRead ELSE truth[r]]
    /\ peer' = PeerCompact(peer, rev)
    /\ ret' = NoRet
    /\ UNCHANGED <<ig, consistentIndex, lk, le, cic>>
    /\ UNCHANGED <<currentRev, kvindex, pendings, worker, chans, nWrites,
                   pristine>>

\* The three ways a call of Compact(rev) starts.
CompactDo(rev, api) ==
    \/ CompactCompacted(rev, api)
    \/ CompactFuture(rev, api)
    \/ CompactPersist(rev, api)

\* A client's call of Compact(rev).
CompactCall(rev) ==
    /\ InUse
    /\ MuFree
    /\ CompactDo(rev, TRUE)
    /\ UNCHANGED <<pc, scheduledCompact>>

\* CompactFinish as a Compact that schedules the sweep with an empty set of
\* revisions to keep.
CompactFinish_NoKeep ==
    /\ cpc.pc = "persisted"
    /\ LET c == indexCompact(kvindex, cpc.rev)
       IN /\ kvindex' = c.index
          /\ chans' = Append(chans, NewChan(cpc.rev, "compact"))
          /\ pendings' = Append(pendings, [kind |-> "compact", rev |-> cpc.rev,
                                           keep |-> {}, ch |-> Len(chans) + 1])
          /\ ret' = IF cpc.api THEN [err |-> "nil", ch |-> Len(chans) + 1] ELSE NoRet
          /\ UNCHANGED <<ig, consistentIndex, peer, lk, le, cic>>
    /\ cpc' = IdleCompact
    /\ UNCHANGED <<currentRev, compactMainRev, batch, disk, worker, pc,
                   scheduledCompact, nWrites, pristine, truth>>

\* The rest of a successful Compact: the index is compacted, the channel made
\* and the sweep job scheduled; the locks are released and the call returns.
CompactFinish ==
    /\ cpc.pc = "persisted"
    /\ LET c == indexCompact(kvindex, cpc.rev)
       IN /\ kvindex' = c.index
          /\ chans' = Append(chans, NewChan(cpc.rev, "compact"))
          /\ pendings' = Append(pendings, [kind |-> "compact", rev |-> cpc.rev,
                                           keep |-> c.keep, ch |-> Len(chans) + 1])
          /\ ret' = IF cpc.api THEN [err |-> "nil", ch |-> Len(chans) + 1] ELSE NoRet
          /\ UNCHANGED <<ig, consistentIndex, peer, lk, le, cic>>
    /\ cpc' = IdleCompact
    /\ UNCHANGED <<currentRev, compactMainRev, batch, disk, worker, pc,
                   scheduledCompact, nWrites, pristine, truth>>

\* ---------------------------------------------------------- the worker
\* The worker runs a batch of its sweep: after the last batch the job closes
\* its channel, after any other it waits at the select on the timer and stopc.
RunBatch(job, last) ==
    LET s == SweepBatch(batch, job, last)
    IN /\ batch' = s.b
       /\ IF s.done
          THEN /\ chans' = CloseChan(chans, job.ch, s.b)
               /\ worker' = IdleWorker
          ELSE /\ chans' = chans
               /\ worker' = [pc |-> "pause", job |-> job, last |-> s.last]

\* JobStart as a worker that takes the job scheduled last.
JobStart_LastFirst ==
    /\ worker.pc = "idle"
    /\ pendings # <<>>
    /\ pendings' = SubSeq(pendings, 1, Len(pendings) - 1)
    /\ LET job == pendings[Len(pendings)]
       IN IF Cancelled
          THEN /\ worker' = [pc |-> "barrier", job |-> job, last |-> <<0, 0>>]
               /\ UNCHANGED <<batch, chans>>
          ELSE IF job.kind = "compact"
          THEN RunBatch(job, <<0, 0>>)
          ELSE /\ chans' = CloseChan(chans, job.ch, batch)
               /\ worker' = IdleWorker
               /\ batch' = batch
    /\ ret' = NoRet
    /\ UNCHANGED <<ig, consistentIndex, peer, lk, le, cic>>
    /\ UNCHANGED <<currentRev, compactMainRev, kvindex, disk, pc, cpc,
                   scheduledCompact, nWrites, pristine, truth>>

\* The worker takes the next job. A compaction job whose context is cancelled
\* and a barrier whose context is cancelled go to compactBarrier's lock; a
\* compaction job starts its sweep; a barrier closes its channel.
JobStart ==
    /\ worker.pc = "idle"
    /\ pendings # <<>>
    /\ pendings' = Tail(pendings)
    /\ LET job == Head(pendings)
       IN IF Cancelled
          THEN /\ worker' = [pc |-> "barrier", job |-> job, last |-> <<0, 0>>]
               /\ UNCHANGED <<batch, chans>>
          ELSE IF job.kind = "compact"
          THEN RunBatch(job, <<0, 0>>)
          ELSE /\ chans' = CloseChan(chans, job.ch, batch)
               /\ worker' = IdleWorker
               /\ batch' = batch
    /\ ret' = NoRet
    /\ UNCHANGED <<ig, consistentIndex, peer, lk, le, cic>>
    /\ UNCHANGED <<currentRev, compactMainRev, kvindex, disk, pc, cpc,
                   scheduledCompact, nWrites, pristine, truth>>

\* The timer of the sweep's select fires: the next batch.
SweepResume ==
    /\ worker.pc = "pause"
    /\ RunBatch(worker.job, worker.last)
    /\ ret' = NoRet
    /\ UNCHANGED <<ig, consistentIndex, peer, lk, le, cic>>
    /\ UNCHANGED <<currentRev, compactMainRev, kvindex, disk, pendings, pc, cpc,
                   scheduledCompact, nWrites, pristine, truth>>

\* The sweep's select finds stopc closed: scheduleCompaction returns false and
\* the job calls compactBarrier(nil, ch).
SweepStopped ==
    /\ worker.pc = "pause"
    /\ StopcClosed
    /\ worker' = [worker EXCEPT !.pc = "barrier"]
    /\ ret' = NoRet
    /\ UNCHANGED <<ig, consistentIndex, peer, lk, le, cic>>
    /\ UNCHANGED <<currentRev, compactMainRev, kvindex, batch, disk, pendings,
                   chans, pc, cpc, scheduledCompact, nWrites, pristine,
                   truth>>

\* compactBarrier as one that closes the channel where it should drop the
\* barrier.
compactBarrier_Closes ==
    /\ worker.pc = "barrier"
    /\ MuFree
    /\ chans' = CloseChan(chans, worker.job.ch, batch)
    /\ worker' = IdleWorker
    /\ ret' = NoRet
    /\ UNCHANGED <<ig, consistentIndex, peer, lk, le, cic>>
    /\ UNCHANGED <<currentRev, compactMainRev, kvindex, batch, disk, pendings, pc,
                   cpc, scheduledCompact, nWrites, pristine, truth>>

\* compactBarrier as one that closes the channel and schedules the barrier
\* again.
compactBarrier_ClosesAgain ==
    /\ worker.pc = "barrier"
    /\ MuFree
    /\ chans' = CloseChan(chans, worker.job.ch, batch)
    /\ pendings' = Append(pendings, [kind |-> "barrier", rev |-> 0,
                                      keep |-> {}, ch |-> worker.job.ch])
    /\ worker' = IdleWorker
    /\ ret' = NoRet
    /\ UNCHANGED <<ig, consistentIndex, peer, lk, le, cic>>
    /\ UNCHANGED <<currentRev, compactMainRev, kvindex, batch, disk, pc,
                   cpc, scheduledCompact, nWrites, pristine, truth>>

\* compactBarrier with a nil or cancelled context: under mu, the barrier is
\* dropped when stopc is closed and scheduled again otherwise.
compactBarrier ==
    /\ worker.pc = "barrier"
    /\ MuFree
    /\ pendings' = IF StopcClosed THEN pendings
                   ELSE Append(pendings, [kind |-> "barrier", rev |-> 0,
                                          keep |-> {}, ch |-> worker.job.ch])
    /\ worker' = IdleWorker
    /\ ret' = NoRet
    /\ UNCHANGED <<ig, consistentIndex, peer, lk, le, cic>>
    /\ UNCHANGED <<currentRev, compactMainRev, kvindex, batch, disk, chans, pc,
                   cpc, scheduledCompact, nWrites, pristine, truth>>

\* The worker of a stopped scheduler leaves once its queue is empty.
WorkerExit ==
    /\ worker.pc = "idle"
    /\ pendings = <<>>
    /\ Cancelled
    /\ worker' = [worker EXCEPT !.pc = "exited"]
    /\ ret' = NoRet
    /\ UNCHANGED <<ig, consistentIndex, peer, lk, le, cic>>
    /\ UNCHANGED <<currentRev, compactMainRev, kvindex, batch, disk, pendings,
                   chans, pc, cpc, scheduledCompact, nWrites, pristine,
                   truth>>

\* ------------------------------------------------------------------ Close
\* store.Close: close(s.stopc), then fifoSched.Stop(), which cancels the
\* context and returns when the worker has left.
CloseStopc ==
    /\ pc = "run"
    /\ Returned
    /\ pc' = "close_stopc"
    /\ ret' = NoRet
    /\ UNCHANGED <<ig, consistentIndex, peer, lk, le, cic>>
    /\ UNCHANGED <<currentRev, compactMainRev, kvindex, batch, disk, pendings,
                   worker, chans, cpc, scheduledCompact, nWrites, pristine,
                   truth>>

CloseStop ==
    /\ pc = "close_stopc"
    /\ pc' = "close_wait"
    /\ ret' = NoRet
    /\ UNCHANGED <<ig, consistentIndex, peer, lk, le, cic>>
    /\ UNCHANGED <<currentRev, compactMainRev, kvindex, batch, disk, pendings,
                   worker, chans, cpc, scheduledCompact, nWrites, pristine,
                   truth>>

CloseReturn ==
    /\ pc = "close_wait"
    /\ worker.pc = "exited"
    /\ pc' = "closed"
    /\ ret' = NoRet
    /\ UNCHANGED <<ig, consistentIndex, peer, lk, le, cic>>
    /\ UNCHANGED <<currentRev, compactMainRev, kvindex, batch, disk, pendings,
                   worker, chans, cpc, scheduledCompact, nWrites, pristine,
                   truth>>

\* ---------------------------------------------------------------- Restore
\* store.Restore(b): mu is locked and stopc closed.
RestoreLock ==
    /\ pc = "run"
    /\ MuFree
    /\ pc' = "restore_stopc"
    /\ ret' = NoRet
    /\ UNCHANGED <<ig, consistentIndex, peer, lk, le, cic>>
    /\ UNCHANGED <<currentRev, compactMainRev, kvindex, batch, disk, pendings,
                   worker, chans, cpc, scheduledCompact, nWrites, pristine,
                   truth>>

\* fifoSched.Stop() is called: the context is cancelled, and Restore waits
\* for the worker to leave.
RestoreStop ==
    /\ pc = "restore_stopc"
    /\ pc' = "restore_wait"
    /\ ret' = NoRet
    /\ UNCHANGED <<ig, consistentIndex, peer, lk, le, cic>>
    /\ UNCHANGED <<currentRev, compactMainRev, kvindex, batch, disk, pendings,
                   worker, chans, cpc, scheduledCompact, nWrites, pristine,
                   truth>>

\* The state of a store whose fields were reset and whose restore() has
\* scanned backend b; nextPc is where the caller stands then.
RecoveredAs(r, b, nextPc) ==
    /\ currentRev' = r.currentRev
    /\ compactMainRev' = r.compactMainRev
    /\ kvindex' = r.kvindex
    /\ scheduledCompact' = r.scheduledCompact
    /\ batch' = b
    /\ disk' = b
    /\ pendings' = <<>>
    /\ worker' = IdleWorker
    /\ cpc' = IdleCompact
    /\ pc' = nextPc
    /\ nWrites' = 0
    /\ pristine' = FALSE
    /\ truth' = Reads(r.currentRev, r.compactMainRev, r.kvindex, b)
    /\ consistentIndex' = 0
    /\ AttachAll(r.keyToLease)

Recovered(b, nextPc) ==
    RecoveredAs(restore(b, NewStoreCurrentRev, NewStoreCompactMainRev), b, nextPc)

\* Stop() has returned: Restore swaps the backend for b, resets the store's
\* fields, makes a new scheduler and stop channel, and restore() scans b.
RestoreSwap(b) ==
    /\ pc = "restore_wait"
    /\ worker.pc = "exited"
    /\ Recovered(b, "restore_resume")
    /\ peer' = IF b = disk THEN PeerRestart(peer)
               ELSE IF peer.on THEN FreshPeer ELSE peer
    /\ ret' = NoRet
    /\ UNCHANGED <<ig, lk, cic>>
    /\ UNCHANGED <<chans>>

\* The process dies and starts again: what was not committed is lost, and
\* NewStore builds a store on the backend and scans it. The log is applied
\* again from the entry of the index the backend holds.
CrashNewStore ==
    /\ Recovered(disk, "new_resume")
    /\ chans' = <<>>
    /\ ig' = IF ig.nil THEN ig ELSE Getter(MetaIndex(disk.ci))
    /\ peer' = PeerRestart(peer)
    /\ ret' = NoRet
    /\ cic' = IdleIndexCall
    /\ UNCHANGED lk

\* restore() finds no compaction to resume and returns; Restore's deferred
\* unlock releases mu.
ResumeNone ==
    /\ pc \in {"new_resume", "restore_resume"}
    /\ scheduledCompact = 0
    /\ pc' = "run"
    /\ ret' = NoRet
    /\ UNCHANGED <<ig, consistentIndex, peer, lk, le, cic>>
    /\ UNCHANGED <<currentRev, compactMainRev, kvindex, batch, disk, pendings,
                   worker, chans, cpc, scheduledCompact, nWrites, pristine,
                   truth>>

\* restore() calls s.Compact(scheduledCompact), which locks mu: it goes on
\* when mu is free (NewStore), and waits for mu when the caller is Restore,
\* which holds mu until restore() has returned.
ResumeCompact ==
    /\ pc \in {"new_resume", "restore_resume"}
    /\ scheduledCompact # 0
    /\ MuFree
    /\ CompactDo(scheduledCompact, FALSE)
    /\ pc' = "run"
    /\ scheduledCompact' = 0

\* ------------------------------------------------------- consistent index
\* The server goes on to the next entry of the replicated log: the getter
\* returns the offset of the entry being applied.
ApplyEntry ==
    /\ ~ig.nil
    /\ ig.index < MaxIndex
    /\ pc = "run"
    /\ ig' = Getter(ig.index + 1)
    /\ ret' = NoRet
    /\ UNCHANGED <<currentRev, compactMainRev, kvindex, batch, disk, pendings,
                   worker, chans, pc, cpc, scheduledCompact, nWrites, pristine,
                   truth, consistentIndex, peer, lk, le, cic>>

\* store.ConsistentIndex when the cache holds a value: the value is returned
\* and nothing is locked.
ConsistentIndex ==
    /\ pc # "closed"
    /\ Returned
    /\ consistentIndex > 0
    /\ ret' = NoRet
    /\ UNCHANGED <<currentRev, compactMainRev, kvindex, batch, disk, pendings,
                   worker, chans, pc, cpc, scheduledCompact, nWrites, pristine,
                   truth, ig, consistentIndex, peer, lk, le, cic>>

\* store.ConsistentIndex when the cache holds 0: the batch transaction of the
\* backend s.b names is locked and meta/consistent_index read. With no value
\* there the call returns 0 and releases the lock.
ConsistentIndexRead ==
    /\ pc # "closed"
    /\ Returned
    /\ TxFree
    /\ consistentIndex = 0
    /\ cic' = IF batch.ci = <<>> THEN IdleIndexCall
              ELSE [pc |-> "read", v |-> MetaIndex(batch.ci)]
    /\ ret' = NoRet
    /\ UNCHANGED <<currentRev, compactMainRev, kvindex, batch, disk, pendings,
                   worker, chans, pc, cpc, scheduledCompact, nWrites, pristine,
                   truth, ig, consistentIndex, peer, lk, le>>

\* The value read is stored in the cache and returned; the lock is released.
ConsistentIndexStore ==
    /\ cic.pc = "read"
    /\ consistentIndex' = cic.v
    /\ cic' = IdleIndexCall
    /\ ret' = NoRet
    /\ UNCHANGED <<currentRev, compactMainRev, kvindex, batch, disk, pendings,
                   worker, chans, pc, cpc, scheduledCompact, nWrites, pristine,
                   truth, ig, peer, lk, le>>

\* ------------------------------------------------------------------ locks
\* The instructions of a call, as far as locks and the store's fields go: a
\* lock taken or released (mu and revMu in write mode, muR and revMuR in read
\* mode, tx the batch transaction's lock), and a field read or written.
Lock(l) == [k |-> "lock", a |-> l]
Unlock(l) == [k |-> "unlock", a |-> l]
Read(f) == [k |-> "read", a |-> f]
Write(f) == [k |-> "write", a |-> f]

\* store.Compact(rev) for a revision it accepts.
CompactProg ==
    << Lock("mu"), Lock("revMu"),
       Read("compactMainRev"), Read("currentRev"), Write("compactMainRev"),
       Read("b"), Lock("tx"), Unlock("tx"), Read("b"),
       Write("kvindex"),
       Unlock("revMu"), Unlock("mu") >>

\* store.Commit.
CommitProg ==
    << Lock("mu"), Read("b"), Lock("tx"), Write("consistentIndex"), Unlock("tx"),
       Read("b"), Unlock("mu") >>

\* store.Hash.
HashProg == << Read("b"), Read("b"), Read("currentRev") >>

\* store.ConsistentIndex when the cache holds 0.
ConsistentIndexProg ==
    << Read("consistentIndex"), Read("b"), Lock("tx"), Write("consistentIndex"),
       Unlock("tx") >>

\* store.Restore(b), with restore() on a backend that has no compaction to
\* resume: the fields are reset, then set again from the backend.
RestoreProg ==
    << Lock("mu"),
       Write("consistentIndex"), Write("b"), Write("kvindex"),
       [k |-> "reset", a |-> "currentRev"], Write("compactMainRev"),
       Read("b"), Lock("tx"), Write("compactMainRev"),
       [k |-> "rescan", a |-> "currentRev"], Write("kvindex"),
       Read("currentRev"), Read("compactMainRev"),
       Unlock("tx"), Unlock("mu") >>

\* The end of a write transaction with revMu released before the batch lock.
WriteEndProg_RevMuFirst ==
    << Write("consistentIndex"), Lock("revMu"), [k |-> "advance", a |-> "currentRev"],
       Unlock("revMu"), Unlock("tx"), Unlock("muR") >>

\* The end of a write transaction that changed the store: the index is saved,
\* revMu is locked, currentRev advanced, the batch lock released and revMu
\* released after it.
WriteEndProg ==
    << Write("consistentIndex"), Lock("revMu"), [k |-> "advance", a |-> "currentRev"],
       Unlock("tx"), Unlock("revMu"), Unlock("muR") >>

\* A write transaction: Write() takes mu for reading and the batch lock, the
\* mutations go to the batch at main revision currentRev + 1, then End.
WriteProg ==
    << Lock("muR"), Read("b"), Lock("tx"),
       [k |-> "stage", a |-> "currentRev"], Write("kvindex") >> \o WriteEndProg

\* A read transaction: Read() takes mu for reading, then under revMu it locks
\* the read transaction and takes currentRev and compactMainRev; Range, End.
ReadProg ==
    << Lock("muR"), Read("b"), Lock("revMuR"),
       [k |-> "open", a |-> "b"], [k |-> "snap", a |-> "currentRev"],
       Read("compactMainRev"), Unlock("revMuR"),
       Read("kvindex"), Unlock("muR") >>

CallNames == {"Compact", "Commit", "Hash", "ConsistentIndex", "Restore", "Write", "Read"}
Prog(op) ==
    CASE op = "Compact" -> CompactProg
      [] op = "Commit" -> CommitProg
      [] op = "Hash" -> HashProg
      [] op = "ConsistentIndex" -> ConsistentIndexProg
      [] op = "Restore" -> RestoreProg
      [] op = "Write" -> WriteProg
      [] op = "Read" -> ReadProg
      [] OTHER -> <<>>

\* Goroutine p holds lock l.
Holds(p, l) == \E j \in 1..Len(lk.th[p].held) : lk.th[p].held[j] = l

\* Lock l can be taken: a RWMutex in write mode when nobody holds it, in read
\* mode when nobody holds it in write mode; a Mutex when nobody holds it.
CanLock(l) ==
    CASE l = "mu"     -> \A q \in Procs : ~Holds(q, "mu") /\ ~Holds(q, "muR")
      [] l = "muR"    -> \A q \in Procs : ~Holds(q, "mu")
      [] l = "revMu"  -> \A q \in Procs : ~Holds(q, "revMu") /\ ~Holds(q, "revMuR")
      [] l = "revMuR" -> \A q \in Procs : ~Holds(q, "revMu")
      [] OTHER        -> \A q \in Procs : ~Holds(q, l)

\* The instruction goroutine p is at, and p after it.
Instr(p) == IF lk.th[p].op = "none" THEN [k |-> "none", a |-> "none"]
            ELSE Prog(lk.th[p].op)[lk.th[p].i]
After(p, t) == IF t.i = Len(Prog(t.op)) THEN IdleCall ELSE [t EXCEPT !.i = @ + 1]

storeVars == <<currentRev, compactMainRev, kvindex, batch, disk, pendings, worker,
               chans, pc, cpc, scheduledCompact, ret, nWrites, pristine, truth,
               ig, consistentIndex, peer, le, cic>>

\* Goroutine p calls the store.
Call(p, op) ==
    /\ lk.th[p].op = "none"
    /\ op = "Write" => lk.staged < MaxRev
    /\ lk' = [lk EXCEPT !.th[p] = [IdleCall EXCEPT !.op = op, !.i = 1]]
    /\ UNCHANGED storeVars

\* p takes the lock it waits for.
LockStep(p) ==
    /\ Instr(p).k = "lock"
    /\ CanLock(Instr(p).a)
    /\ lk' = [lk EXCEPT !.th[p] = After(p, [@ EXCEPT !.held = Append(@, Instr(p).a)])]
    /\ UNCHANGED storeVars

\* p releases a lock; what the batch holds shows to the read transactions
\* opened after the batch lock is released.
UnlockStep(p) ==
    /\ Instr(p).k = "unlock"
    /\ lk' = [lk EXCEPT
                !.th[p] = After(p, [@ EXCEPT !.held =
                              SelectSeq(@, LAMBDA x : x # Instr(p).a)]),
                !.visible = IF Instr(p).a = "tx" THEN lk.staged ELSE @]
    /\ UNCHANGED storeVars

\* p reads or writes a field of the store.
AccessStep(p) ==
    /\ Instr(p).k \in {"read", "write"}
    /\ lk' = [lk EXCEPT !.th[p] = After(p, @)]
    /\ UNCHANGED storeVars

\* A write transaction puts its rows in the batch at currentRev + 1, and its
\* End advances currentRev.
WriteStep(p) ==
    /\ Instr(p).k \in {"stage", "advance"}
    /\ lk' = [lk EXCEPT !.th[p] = After(p, @),
                        !.staged = IF Instr(p).k = "stage" THEN lk.rev + 1 ELSE @,
                        !.rev = IF Instr(p).k = "advance" THEN @ + 1 ELSE @]
    /\ UNCHANGED storeVars

\* A read transaction locks the backend's read transaction, and takes
\* currentRev.
ReadStep(p) ==
    /\ Instr(p).k \in {"open", "snap"}
    /\ lk' = [lk EXCEPT !.th[p] = After(p,
                  [@ EXCEPT !.sees = IF Instr(p).k = "open" THEN lk.visible ELSE @,
                            !.snap = IF Instr(p).k = "snap" THEN lk.rev ELSE @])]
    /\ UNCHANGED storeVars

\* Restore sets currentRev to 1, and restore() sets it from the rows of the
\* backend.
RestoreStep(p) ==
    /\ Instr(p).k \in {"reset", "rescan"}
    /\ lk' = [lk EXCEPT !.th[p] = After(p, @),
                        !.rev = IF Instr(p).k = "reset" THEN 1 ELSE lk.visible]
    /\ UNCHANGED storeVars

\* ------------------------------------------------------------------ Next
CompactRevs == 0..(MaxRev + 1)

Next ==
    \/ \E ops \in OneKeyTxns : WriteTxn(ops)
    \/ Commit
    \/ Hash
    \/ \E rev \in CompactRevs : Len(chans) < MaxChans /\ CompactCall(rev)
    \/ CompactFinish
    \/ JobStart
    \/ SweepResume
    \/ SweepStopped
    \/ compactBarrier
    \/ WorkerExit
    \/ CloseStopc
    \/ CloseStop
    \/ CloseReturn
    \/ RestoreLock
    \/ RestoreStop
    \/ \E b \in {EmptyBackend, disk} : RestoreSwap(b)
    \/ CrashNewStore
    \/ ResumeNone
    \/ ResumeCompact

Spec == Init /\ [][Next]_vars

\* The store's data: transactions on every key, compaction, the sweep,
\* commits and crashes, without Close and Restore.
NextData ==
    \/ \E ops \in OneOpTxns : WriteTxn(ops)
    \/ Commit
    \/ \E rev \in CompactRevs : Len(chans) < MaxChans /\ CompactCall(rev)
    \/ CompactFinish
    \/ JobStart
    \/ SweepResume
    \/ CrashNewStore
    \/ ResumeNone
    \/ ResumeCompact

SpecData == Init /\ [][NextData]_vars

\* Recovery of what was written: transactions of one and two mutations on
\* every key, commits and crashes.
NextRecovery ==
    \/ \E ops \in Txns : WriteTxn(ops)
    \/ Commit
    \/ CrashNewStore
    \/ ResumeNone

SpecRecovery == Init /\ [][NextRecovery]_vars

\* Recovery of a store whose puts carry leases. The lease IDs a put names
\* are 1..MaxLease, 0 being lease.NoLease.
MaxLease == 1

LeaseOps == [type : {"put"}, key : Keys, lease : 0..MaxLease] \cup
            [type : {"del"}, key : Keys, lease : {0}]

\* Its transactions: one mutation, or a put followed by a delete.
LeaseTxns == {<<o>> : o \in LeaseOps} \cup
             {<<o1, o2>> : o1 \in {o \in LeaseOps : o.type = "put"},
                           o2 \in {o \in LeaseOps : o.type = "del"}}

NextLease ==
    \/ \E ops \in LeaseTxns : WriteTxn(ops)
    \/ Commit
    \/ CrashNewStore
    \/ ResumeNone

SpecLease == Init /\ [][NextLease]_vars

\* A store built with a getter: its writes, Commit, Hash, ConsistentIndex and
\* crashes, while the log goes on.
InitIndex ==
    /\ NewStoreInit
    /\ ig = Getter(0)
    /\ peer = NoPeer
    /\ lk = NoCalls

NextIndex ==
    \/ \E ops \in OneKeyTxns : WriteTxn(ops)
    \/ Commit
    \/ Hash
    \/ ApplyEntry
    \/ ConsistentIndex
    \/ ConsistentIndexRead
    \/ ConsistentIndexStore
    \/ CrashNewStore
    \/ ResumeNone

SpecIndex == InitIndex /\ [][NextIndex]_vars

\* The cache of a store built with a getter: its writes, Commit and
\* ConsistentIndex calls, and Restore on an empty backend or on a copy of
\* what the backend has committed.
NextCache ==
    \/ \E ops \in OneKeyTxns : WriteTxn(ops)
    \/ Commit
    \/ ApplyEntry
    \/ ConsistentIndex
    \/ ConsistentIndexRead
    \/ ConsistentIndexStore
    \/ RestoreLock
    \/ RestoreStop
    \/ WorkerExit
    \/ \E b \in {EmptyBackend, disk} : RestoreSwap(b)
    \/ ResumeNone

SpecCache == InitIndex /\ [][NextCache]_vars

\* Completion channels one process hands out where the queue of the scheduler
\* is looked at.
MaxJobs == 2

\* The scheduler and what stops it: writes, Compact, the worker and its jobs,
\* Close, Restore and crashes. Every goroutine that can take a step takes it
\* in the end: the worker, a Compact past its commit, Close and Restore past
\* their first step, and NewStore.
NextSched ==
    \/ \E ops \in OneKeyTxns : WriteTxn(ops)
    \/ \E rev \in CompactRevs : Len(chans) < MaxJobs /\ CompactCall(rev)
    \/ CompactFinish
    \/ JobStart
    \/ SweepResume
    \/ SweepStopped
    \/ compactBarrier
    \/ WorkerExit
    \/ CloseStopc
    \/ CloseStop
    \/ CloseReturn
    \/ RestoreLock
    \/ RestoreStop
    \/ \E b \in {EmptyBackend, disk} : RestoreSwap(b)
    \/ CrashNewStore
    \/ ResumeNone
    \/ ResumeCompact

Fairness ==
    /\ WF_vars(CompactFinish)
    /\ WF_vars(JobStart)
    /\ WF_vars(SweepResume \/ SweepStopped)
    /\ WF_vars(compactBarrier)
    /\ WF_vars(WorkerExit)
    /\ WF_vars(CloseStop)
    /\ WF_vars(CloseReturn)
    /\ WF_vars(RestoreStop)
    /\ WF_vars(\E b \in {EmptyBackend, disk} : RestoreSwap(b))
    /\ WF_vars(ResumeNone)
    /\ WF_vars(ResumeCompact)

SpecSched == Init /\ [][NextSched]_vars /\ Fairness

\* The scheduler of a store that is written, compacted and closed.
NextBarrier ==
    \/ \E ops \in OneKeyTxns : WriteTxn(ops)
    \/ \E rev \in CompactRevs : Len(chans) < MaxJobs /\ CompactCall(rev)
    \/ CompactFinish
    \/ JobStart
    \/ SweepResume
    \/ SweepStopped
    \/ compactBarrier
    \/ WorkerExit
    \/ CloseStopc
    \/ CloseStop
    \/ CloseReturn

SpecBarrier ==
    /\ Init /\ [][NextBarrier]_vars
    /\ WF_vars(CompactFinish)
    /\ WF_vars(JobStart)
    /\ WF_vars(SweepResume \/ SweepStopped)
    /\ WF_vars(compactBarrier)
    /\ WF_vars(WorkerExit)
    /\ WF_vars(CloseStop)
    /\ WF_vars(CloseReturn)

\* The calls of the store by several goroutines, at the grain of their locks.
NextLocks ==
    \E p \in Procs :
        \/ \E op \in CallNames : Call(p, op)
        \/ LockStep(p)
        \/ UnlockStep(p)
        \/ AccessStep(p)
        \/ WriteStep(p)
        \/ ReadStep(p)
        \/ RestoreStep(p)

SpecLocks == Init /\ [][NextLocks]_vars

\* Two stores, one with a getter and one without: the same writes, commits and
\* compactions reach both, and the first one may crash and start again.
InitPeers ==
    /\ NewStoreInit
    /\ ig = Getter(1)
    /\ peer = FreshPeer
    /\ lk = NoCalls

NextPeers ==
    \/ \E ops \in Txns : peer.live.currentRev < MaxRev /\ WriteTxn(ops)
    \/ Commit
    \/ Hash
    \/ \E rev \in CompactRevs : Len(chans) < MaxChans /\ CompactCall(rev)
    \/ CompactFinish
    \/ JobStart
    \/ SweepResume
    \/ CrashNewStore
    \/ ResumeNone
    \/ ResumeCompact

SpecPeers == InitPeers /\ [][NextPeers]_vars

\* ================================================================ claims
\* C1: a call Compact(rev) with rev > currentRev returns ErrFutureRev and no
\* channel, and changes neither currentRev, compactMainRev, the key index,
\* the backend (batch and committed, scheduledCompactRev and
\* finishedCompactRev included), the queue, the worker nor the channels.
C1_FutureRevNoChange ==
    [][\A rev \in CompactRevs :
          (CompactCall(rev) /\ rev > currentRev) =>
              /\ ret'.err = "ErrFutureRev"
              /\ ret'.ch = 0
              /\ UNCHANGED <<currentRev, compactMainRev, kvindex, batch, disk,
                             pendings, worker, chans, cpc>>]_vars

\* C1 witness: a store that has been written to has just answered a Compact
\* with ErrFutureRev.
C1_Witness == ret.err = "ErrFutureRev" /\ currentRev >= 2 /\ batch.rows # {}

\* C2: a call Compact(rev) with rev <= compactMainRev returns ErrCompacted
\* and a new, open channel; currentRev, compactMainRev, the key index and the
\* backend are unchanged, and the queue gains exactly one barrier job for
\* that channel.
C2_CompactedBarrier ==
    [][\A rev \in CompactRevs :
          (CompactCall(rev) /\ rev <= compactMainRev) =>
              /\ ret'.err = "ErrCompacted"
              /\ ret'.ch = Len(chans) + 1
              /\ Len(chans') = Len(chans) + 1
              /\ ~chans'[ret'.ch].closed
              /\ UNCHANGED <<currentRev, compactMainRev, kvindex, batch, disk,
                             worker, cpc>>
              /\ pendings' = Append(pendings, [kind |-> "barrier", rev |-> 0,
                                               keep |-> {}, ch |-> ret'.ch])]_vars

\* C2 witness: a Compact at or below the compacted revision has just returned
\* ErrCompacted with a channel whose barrier is queued.
C2_Witness ==
    /\ ret.err = "ErrCompacted"
    /\ ret.ch # 0
    /\ compactMainRev >= 1
    /\ \E i \in 1..Len(pendings) : pendings[i].kind = "barrier" /\ pendings[i].ch = ret.ch

\* The compaction jobs the scheduler holds, queued or running.
CompactJobs ==
    {pendings[i] : i \in {j \in 1..Len(pendings) : pendings[j].kind = "compact"}}
        \cup (IF worker.job.kind = "compact" THEN {worker.job} ELSE {})

\* C3: a successful Compact(rev) has set compactMainRev = rev and committed
\* scheduledCompactRev = rev before it compacts the index and schedules the
\* sweep: between the forced commit and the index's compaction the committed
\* scheduledCompactRev is rev, every compaction job queued or running has a
\* revision the committed scheduledCompactRev already covers, and so has
\* every finishedCompactRev a sweep has written.
C3_ScheduledBeforeLoss ==
    /\ cpc.pc = "persisted" =>
           compactMainRev = cpc.rev /\ MetaRev(disk.sched) = cpc.rev
    /\ \A job \in CompactJobs :
           job.rev <= MetaRev(disk.sched) /\ job.rev <= compactMainRev
    /\ MetaRev(batch.fin) <= MetaRev(disk.sched)

\* C3 witness: the sweep of a compaction at a written revision has deleted
\* rows and is not finished.
C3_Witness ==
    /\ worker.pc = "pause"
    /\ worker.job.rev >= 2
    /\ \E r \in disk.rows : r \notin batch.rows

C5_FreshAndOrdered ==
    /\ (pristine /\ nWrites = 0 /\ batch = EmptyBackend) =>
           (currentRev = 1 /\ compactMainRev = -1)
    /\ currentRev >= compactMainRev

\* C5 witness: recovery has found every row swept and lifted currentRev to
\* the compacted revision.
C5_Witness ==
    /\ pc = "new_resume"
    /\ batch.rows = {}
    /\ compactMainRev >= 2
    /\ currentRev = compactMainRev

C7_ReadWindowAnyRev ==
    \A atRev \in 0..(MaxRev + 1) :
        /\ atRev <= compactMainRev => Range(atRev).err = "ErrCompacted"
        /\ atRev > currentRev => Range(atRev).err = "ErrFutureRev"
        /\ (compactMainRev < atRev /\ atRev <= currentRev) => Range(atRev).err = "nil"

\* C7 amended: the same for the revisions atRev >= 1; a read at atRev <= 0 is
\* a read at currentRev.
C7_ReadWindow ==
    /\ \A atRev \in 1..(MaxRev + 1) :
          /\ atRev <= compactMainRev => Range(atRev).err = "ErrCompacted"
          /\ atRev > currentRev => Range(atRev).err = "ErrFutureRev"
          /\ (compactMainRev < atRev /\ atRev <= currentRev) => Range(atRev).err = "nil"
    /\ \A atRev \in {-1, 0} : Range(atRev) = Range(currentRev)

\* C7 witness: after a compaction at a written revision a read at the
\* compacted revision fails, a read at the current one returns a key and a
\* read beyond it fails.
C7_Witness ==
    /\ compactMainRev >= 2
    /\ currentRev > compactMainRev
    /\ Range(compactMainRev).err = "ErrCompacted"
    /\ Range(currentRev).err = "nil"
    /\ Range(currentRev).kvs # {}
    /\ Range(currentRev + 1).err = "ErrFutureRev"

\* C8: a read at a revision above compactMainRev returns what it returned
\* before the compaction (key, value row, create revision, modify revision
\* and version), while the sweep runs and after it has finished.
C8_CompactionKeepsReads ==
    \A r \in 1..MaxRev :
        (compactMainRev < r /\ r <= currentRev) => Range(r) = truth[r]

\* C8 witness: the sweep of a compaction at a written revision has finished,
\* and a read above it returns a key whose row is at or below it.
C8_Witness ==
    /\ compactMainRev >= 2
    /\ MetaRev(batch.fin) = compactMainRev
    /\ worker.pc = "idle"
    /\ pendings = <<>>
    /\ currentRev > compactMainRev
    /\ \E kv \in Range(currentRev).kvs :
          kv.mod[1] <= compactMainRev /\ kv.row # {}

\* The largest of a non-empty set of integers.
MaxOf(S) == CHOOSE x \in S : \A y \in S : y <= x

\* restore has scanned the backend and has not resumed a compaction.
Scanned == pc \in {"new_resume", "restore_resume"}

\* C9 as stated: after the scan and before a compaction is resumed,
\* compactMainRev is the stored finishedCompactRev (-1 if none) and
\* currentRev the larger of the largest main revision of the rows and
\* compactMainRev.
C9_RecoveredRevsNoFloor ==
    Scanned =>
        /\ compactMainRev = MetaRev(batch.fin)
        /\ currentRev = MaxOf({r.main : r \in batch.rows} \cup {compactMainRev})

\* C9 amended: the same, with currentRev no smaller than the 1 NewStore and
\* Restore set before the scan.
C9_RecoveredRevs ==
    Scanned =>
        /\ compactMainRev = MetaRev(batch.fin)
        /\ currentRev = MaxOf({r.main : r \in batch.rows} \cup {compactMainRev, 1})

\* C9 witness: recovery of a backend that holds rows, a finished compaction
\* and a later scheduled one.
C9_Witness ==
    /\ Scanned
    /\ batch.rows # {}
    /\ compactMainRev >= 2
    /\ scheduledCompact > compactMainRev

\* C10: when a store that never crashed has committed all it wrote and the
\* process dies, the store NewStore recovers answers the reads at every
\* revision as that store did.
C10_RecoveryEquivalence ==
    [][(pristine /\ pc = "run" /\ batch = disk /\ pc' = "new_resume") =>
          Reads(currentRev', compactMainRev', kvindex', batch')
              = Reads(currentRev, compactMainRev, kvindex, batch)]_vars

\* C11: when the process died with scheduledCompactRev = c durable and
\* finishedCompactRev below c, the recovery that NewStore runs issues
\* Compact(c) again: when it returns compactMainRev is c and every read at a
\* revision up to c fails with ErrCompacted.
C11_ResumedCompaction ==
    [][(pc = "new_resume" /\ pc' = "run"
          /\ MetaRev(disk.sched) > MetaRev(disk.fin)) =>
          /\ compactMainRev' = MetaRev(disk.sched)
          /\ \A r \in 1..MetaRev(disk.sched) :
                RangeOn(r, currentRev', compactMainRev', kvindex', batch').err
                    = "ErrCompacted"]_vars

\* Every compaction the store accepted has run to its end, and the peer has
\* run the same ones.
Completed ==
    /\ pc = "run" /\ cpc.pc = "idle" /\ pendings = <<>> /\ worker = IdleWorker
    /\ MetaRev(batch.fin) = MetaRev(batch.sched)
    /\ MetaRev(peer.live.batch.sched) = MetaRev(batch.sched)

\* C12: two stores that applied the same committed writes and completed the
\* same compactions return the same digest and revision from Hash, whatever
\* consistent index each of them holds.
C12_HashDeterminism ==
    (peer.on /\ Completed) =>
        HashOf(batch, currentRev) = HashOf(peer.live.batch, peer.live.currentRev)

\* C13: on one backend, across write commits, calls of Commit and crashes,
\* the index the backend has committed at meta/consistent_index never
\* decreases, and neither does the one its batch holds while the process
\* lives.
C13_IndexMonotonic ==
    [][/\ MetaIndex(disk'.ci) >= MetaIndex(disk.ci)
       /\ (pc' # "new_resume" => MetaIndex(batch'.ci) >= MetaIndex(batch.ci))]_vars

\* The index reached the end of the log in the batch and on disk, after a
\* crash had made the log be applied again.
C13_Witness ==
    /\ ~pristine
    /\ MetaIndex(disk.ci) = MaxIndex
    /\ MetaIndex(batch.ci) = MaxIndex
    /\ nWrites = 0 /\ currentRev > 1

\* The kinds of instruction that read a field, and that write one.
ReadKinds == {"read", "snap", "open", "stage"}
WriteKinds == {"write", "advance", "reset", "rescan"}

\* Goroutine p takes the step it is at.
Steps(p) == lk'.th[p] # lk.th[p] /\ lk.th[p].op # "none"

\* Goroutine p is inside Restore with some of the store's fields already
\* written and some still to write.
Restoring(p) ==
    /\ lk.th[p].op = "Restore"
    /\ \E j \in 1..(lk.th[p].i - 1) : RestoreProg[j].k \in WriteKinds
    /\ \E j \in lk.th[p].i..Len(RestoreProg) : RestoreProg[j].k \in WriteKinds

\* C14: while Restore is between its first and its last write of the store's
\* fields, no other call reads a field of the store.
C14_RestoreAtomic ==
    [][\A p, q \in Procs :
          (p # q /\ Restoring(p)) => ~(Steps(q) /\ Instr(q).k \in ReadKinds)]_vars

\* C18: every read of currentRev or compactMainRev is made by a goroutine that
\* holds revMu or holds mu in write mode, and so is every write, with revMu in
\* write mode.
C18_RevMuGuards ==
    [][\A p \in Procs :
          (Steps(p) /\ Instr(p).a \in {"currentRev", "compactMainRev"}) =>
              \/ Holds(p, "mu")
              \/ Holds(p, "revMu")
              \/ (Instr(p).k \in ReadKinds /\ Holds(p, "revMuR"))]_vars

\* The place of a lock in the order mu, batch lock, revMu.
LockRank(l) == IF l \in {"mu", "muR"} THEN 1 ELSE IF l = "tx" THEN 2 ELSE 3

\* Some call is in progress and every call in progress waits for a lock that
\* is held.
Deadlocked ==
    /\ \E p \in Procs : lk.th[p].op # "none"
    /\ \A p \in Procs : lk.th[p].op # "none" =>
          (Instr(p).k = "lock" /\ ~CanLock(Instr(p).a))

\* C19: every goroutine holds its locks in the order mu, batch lock, revMu (so
\* none takes the batch lock while it holds revMu), and the calls never
\* deadlock.
C19_LockOrder ==
    /\ \A p \in Procs : \A i, j \in 1..Len(lk.th[p].held) :
          i < j => LockRank(lk.th[p].held[i]) < LockRank(lk.th[p].held[j])
    /\ ~Deadlocked

\* A write transaction does not hold revMu when it releases the batch lock,
\* and a read transaction sees in the backend the rows of every revision up
\* to the currentRev it took.
C20_RevMuBeforeBatch ==
    /\ [][\A p \in Procs :
            (Steps(p) /\ lk.th[p].op = "Write" /\ Instr(p) = Unlock("tx")) =>
                ~Holds(p, "revMu")]_vars
    /\ [](\A p \in Procs : (lk.th[p].sees > 0 /\ lk.th[p].snap > 0) =>
                lk.th[p].sees >= lk.th[p].snap)

\* C20: a write transaction releases revMu after the batch lock, and a read
\* transaction sees in the backend the rows of every revision up to the
\* currentRev it took under revMu.
C20_ReaderVisibility ==
    /\ [][\A p \in Procs :
            (Steps(p) /\ lk.th[p].op = "Write" /\ Instr(p) = Unlock("tx")) =>
                Holds(p, "revMu")]_vars
    /\ [](\A p \in Procs : (lk.th[p].sees > 0 /\ lk.th[p].snap > 0) =>
                lk.th[p].sees >= lk.th[p].snap)

\* A read transaction took the currentRev a write transaction had just
\* advanced, while that transaction was still in its End.
C20_Witness ==
    \E p, q \in Procs :
        /\ lk.th[p].op = "Read" /\ lk.th[p].snap > 1
        /\ lk.th[p].sees = lk.th[p].snap
        /\ lk.th[p].snap = lk.rev
        /\ lk.th[q].op = "Write" /\ Holds(q, "muR") /\ ~Holds(q, "tx")

\* C15: unless the process dies, a Restore(b) whose Stop has returned goes on
\* to return, also when restore() finds a scheduled compaction to resume.
C15_RestoreTerminates == (pc = "restore_resume") ~> (pc \in {"run", "new_resume"})

\* C16: unless the process dies, Close and Restore get past the scheduler's
\* Stop, whatever jobs are queued or running: the worker leaves and Stop
\* returns.
C16_StopReturns ==
    (pc \in {"close_stopc", "restore_stopc"}) ~>
        (pc \in {"closed", "restore_resume", "new_resume"})

\* The job of channel c is queued or runs.
Waits(c) ==
    \/ \E i \in 1..Len(pendings) : pendings[i].ch = c
    \/ worker.pc \in {"pause", "barrier"} /\ worker.job.ch = c

\* C17: when a completion channel is closed, no job is left queued or running
\* but those scheduled after its own; a barrier that runs once stopc is
\* closed is dropped, neither scheduled again nor closed; and unless the store
\* is stopped or the process dies, the channel of a job that waits is closed
\* in the end.
C17_BarrierGating ==
    /\ [][\A c \in DOMAIN chans :
            (c \in DOMAIN chans' /\ ~chans[c].closed /\ chans'[c].closed) =>
                /\ worker' = IdleWorker
                /\ \A i \in 1..Len(pendings') : pendings'[i].ch > c]_vars
    /\ [][(worker.pc = "barrier" /\ worker'.pc # "barrier" /\ pc' = pc
            /\ StopcClosed) =>
                (pendings' = pendings /\ chans' = chans)]_vars
    /\ \A c \in 1..MaxJobs :
          (c \in DOMAIN chans /\ Waits(c)) ~>
              \/ c \in DOMAIN chans /\ chans[c].closed
              \/ StopcClosed
              \/ pc = "new_resume"

\* A barrier's channel was closed after the channel of the compaction
\* scheduled before it, whose sweep took more than one batch.
C17_Witness ==
    /\ Len(chans) = 2
    /\ chans[1].kind = "compact" /\ chans[1].closed
    /\ chans[2].kind = "barrier" /\ chans[2].closed
    /\ batch.rows = {} /\ currentRev = MaxRev

\* ---------------------------------------------------------------- C21
\* The rows of key k in the key bucket, and the last of them.
RowsOf(rows, k) == {r \in rows : r.key = k}
LastRow(rs) == CHOOSE r \in rs : \A q \in rs : q = r \/ RevLT(RowRev(q), RowRev(r))

\* The Attach calls a scan of rows owes key k: one, with the lease of the
\* key's last row, when that row is a put with a lease; none otherwise.
OwedAttach(rows, k) ==
    IF RowsOf(rows, k) = {} THEN <<>>
    ELSE IF LastRow(RowsOf(rows, k)).tomb \/ LastRow(RowsOf(rows, k)).lease = 0 THEN <<>>
    ELSE <<LastRow(RowsOf(rows, k)).lease>>

\* C21: when restore has scanned the backend, the lease manager's Attach has
\* been called exactly once for each key whose last row is a put with a
\* non-zero lease, with that lease, and for no other key, wherever the chunks
\* end and whichever of the calls returned an error.
C21_LeaseRebuild ==
    Scanned => /\ \A k \in Keys : le.calls[k] = OwedAttach(disk.rows, k)
               /\ le.errs \subseteq {k \in Keys : le.calls[k] # <<>>}

\* A recovery of more rows than a chunk holds has attached one key, with an
\* error, and has left out a key that had a lease in an earlier row.
C21_Witness ==
    /\ pc = "new_resume"
    /\ Cardinality(disk.rows) > RestoreChunkKeys
    /\ le.errs # {}
    /\ \E k \in Keys : le.calls[k] # <<>>
    /\ \E k \in Keys : /\ le.calls[k] = <<>>
                        /\ \E r \in disk.rows : r.key = k /\ r.lease # 0

\* ---------------------------------------------------------------- C22
\* C22: close(ch) is executed at most once on every completion channel
\* Compact has made, whatever the worker, the barriers, further Compact
\* calls, Close and Restore do.
C22_ClosedOnce == \A c \in DOMAIN chans : chans[c].n <= 1

\* Close has returned: the channel of the first Compact was closed, once, and
\* the job of the second was dropped with its channel open.
C22_Witness ==
    /\ pc = "closed"
    /\ Len(chans) = 2
    /\ chans[1].n = 1
    /\ chans[2].n = 0
    /\ pendings = <<>>

\* ---------------------------------------------------------------- C23
\* C23: no step schedules a job on a scheduler whose Stop() has been called,
\* and no step calls Stop() on a scheduler that has been stopped.
C23_NoScheduleAfterStop ==
    [][/\ Len(pendings') > Len(pendings) => ~Cancelled
       /\ (pc' \in {"close_wait", "restore_wait"} /\ pc' # pc) => ~Cancelled]_vars

\* ---------------------------------------------------------------- C24
\* C24: whenever the cached consistentIndex is not 0, it is the value the
\* store's backend holds at meta/consistent_index, so that ConsistentIndex()
\* returns the stored value, whatever the order of the steps of
\* ConsistentIndex, the write commits, Commit and Restore.
C24_CacheCoherence ==
    consistentIndex # 0 => consistentIndex = MetaIndex(batch.ci)

\* ---------------------------------------------------------------- C25
\* C25: in every state the finishedCompactRev the backend holds is at most
\* the scheduledCompactRev it holds, which is at most currentRev, in the batch
\* and in what is committed; a marker that is absent counts as -1.
C25_MarkersOrdered ==
    \A b \in {batch, disk} :
        /\ MetaRev(b.fin) <= MetaRev(b.sched)
        /\ MetaRev(b.sched) <= currentRev

====
